---- MODULE Spec2Model ----
(***************************************************************************)
(* A model of html2md.py: a command-line tool that converts every *.html   *)
(* file of a directory to Markdown through a remote model API and joins    *)
(* the results into one output file.                                       *)
(*                                                                         *)
(* Text is modelled as a sequence of one-character strings, so the string  *)
(* transforms of the program (Path.stem, str.replace, html.unescape,       *)
(* re.sub, str.strip) are computed character by character.                 *)
(*                                                                         *)
(* Two specifications are given.  Spec is one run of main(): discovery,    *)
(* the overwrite prompt, the conversion tasks under the semaphore, the     *)
(* collection loop, the reordering and the output file.  ClientSpec is the *)
(* remote client under a clock: the rate limiter, the retry loop and its   *)
(* sleeps.                                                                 *)
(***************************************************************************)
EXTENDS Integers, Sequences, FiniteSets, TLC

(***************************************************************************)
(* Bounds of the model                                                     *)
(***************************************************************************)
MaxMtime == 2        \* modification times are 1..MaxMtime
MaxConcurrent == 2   \* processing.max_concurrent is 0..MaxConcurrent
MaxRetries == 2      \* gemini.max_retries is 0..MaxRetries
MaxCfgValue == 2     \* numbers in the configuration document are 1..MaxCfgValue
MaxArg == 2          \* --concurrent is -1..MaxArg
MaxSegments == 3     \* a queried key has 1..MaxSegments segments
MaxTokens == 4       \* a file name is made of 1..MaxTokens tokens
MaxFairFiles == 2    \* FairSpec: 1..MaxFairFiles files are discovered
MaxClientRetries == 4 \* gemini.max_retries is 0..MaxClientRetries in ClientSpec
NDocs == 1           \* documents handed to the remote client in ClientSpec
MaxRateLimit == 2    \* processing.rate_limit_per_minute is 1..MaxRateLimit
MaxDelayBase == 1    \* gemini.retry_delay_base is 1..MaxDelayBase ticks
MaxServerDelay == 1  \* a 429's retryDelay is 1..MaxServerDelay ticks
TicksPerPeriod == 3  \* clock ticks in the limiter's 60-second period

NoneVal == <<"None">>   \* Python's None: no text is a sequence holding a 4-letter element

(***************************************************************************)
(* Text helpers                                                            *)
(***************************************************************************)
Whitespace == {" ", "\t", "\n", "\r", "\f"}

RECURSIVE LastIndexOf(_, _, _)
\* str.rfind(c) restricted to s[1..i]; 0 when absent
LastIndexOf(s, c, i) ==
    IF i = 0 THEN 0
    ELSE IF s[i] = c THEN i
    ELSE LastIndexOf(s, c, i - 1)

\* Path(name).stem for a name without a directory part
Stem(name) ==
    LET i == LastIndexOf(name, ".", Len(name))
    IN  IF 1 < i /\ i < Len(name) THEN SubSeq(name, 1, i - 1) ELSE name

RECURSIVE ReplaceChar(_, _, _)
\* str.replace(old, new) for one-character strings
ReplaceChar(s, old, new) ==
    IF s = <<>> THEN <<>>
    ELSE <<IF Head(s) = old THEN new ELSE Head(s)>> \o ReplaceChar(Tail(s), old, new)

\* does s, from position i, continue with the characters of w
StartsAt(s, i, w) ==
    /\ i + Len(w) - 1 <= Len(s)
    /\ \A k \in 1..Len(w) : s[i + k - 1] = w[k]

RECURSIVE UnescapeFrom(_, _)
\* html.unescape, for the character references &amp; and &lt; (each with
\* or without its semicolon); one left-to-right pass, as re.sub makes
UnescapeFrom(s, i) ==
    IF i > Len(s) THEN <<>>
    ELSE IF StartsAt(s, i, <<"&", "a", "m", "p", ";">>) THEN <<"&">> \o UnescapeFrom(s, i + 5)
    ELSE IF StartsAt(s, i, <<"&", "a", "m", "p">>) THEN <<"&">> \o UnescapeFrom(s, i + 4)
    ELSE IF StartsAt(s, i, <<"&", "l", "t", ";">>) THEN <<"<">> \o UnescapeFrom(s, i + 4)
    ELSE IF StartsAt(s, i, <<"&", "l", "t">>) THEN <<"<">> \o UnescapeFrom(s, i + 3)
    ELSE <<s[i]>> \o UnescapeFrom(s, i + 1)

Unescape(s) == UnescapeFrom(s, 1)

\* the character class of re.sub(r'[<>:"/\\|?*]', '', name)
SpecialChars == {"<", ">", ":", "\"", "/", "\\", "|", "?", "*"}

RECURSIVE RemoveCharsSpaced(_, _)
\* a substitution that puts a space where a character of the class was
RemoveCharsSpaced(s, cs) ==
    IF s = <<>> THEN <<>>
    ELSE <<IF Head(s) \in cs THEN " " ELSE Head(s)>> \o RemoveCharsSpaced(Tail(s), cs)

RECURSIVE RemoveChars(_, _)
RemoveChars(s, cs) ==
    IF s = <<>> THEN <<>>
    ELSE (IF Head(s) \in cs THEN <<>> ELSE <<Head(s)>>) \o RemoveChars(Tail(s), cs)

RECURSIVE CollapseSpaces(_)
\* re.sub(r'\s+', ' ', s): every run of whitespace becomes one space
CollapseSpaces(s) ==
    IF s = <<>> THEN <<>>
    ELSE IF Head(s) \in Whitespace
         THEN IF Len(s) > 1 /\ s[2] \in Whitespace
              THEN CollapseSpaces(Tail(s))
              ELSE <<" ">> \o CollapseSpaces(Tail(s))
         ELSE <<Head(s)>> \o CollapseSpaces(Tail(s))

RECURSIVE LStrip(_)
LStrip(s) == IF s # <<>> /\ Head(s) \in Whitespace THEN LStrip(Tail(s)) ELSE s

RECURSIVE RStrip(_)
RStrip(s) ==
    IF s # <<>> /\ s[Len(s)] \in Whitespace THEN RStrip(SubSeq(s, 1, Len(s) - 1)) ELSE s

\* str.strip()
Strip(s) == RStrip(LStrip(s))

\* Path(filename).name for a name without "/": the path "." has no name
PathName(filename) == IF filename = <<".">> THEN <<>> ELSE filename

\* a version that decodes the entities after the special characters are removed
clean_filename_decode_late(filename) ==
    LET name1 == Stem(PathName(filename))
        name2 == ReplaceChar(name1, "_", " ")
        name3 == RemoveChars(name2, SpecialChars)
        name4 == Unescape(name3)
    IN  Strip(CollapseSpaces(name4))

\* HTMLProcessor.clean_filename
clean_filename(filename) ==
    LET name1 == Stem(PathName(filename))
        name2 == ReplaceChar(name1, "_", " ")
        name3 == Unescape(name2)
        name4 == RemoveChars(name3, SpecialChars)
    IN  Strip(CollapseSpaces(name4))

(***************************************************************************)
(* The directory                                                           *)
(***************************************************************************)
HtmlExt == <<".", "h", "t", "m", "l">>

\* the file names the directory may hold; the first two derive the same title
FileNames ==
    { <<"a", "_", "b">> \o HtmlExt,
      <<"a", " ", "b">> \o HtmlExt,
      <<"c">> \o HtmlExt }

FileEntries == [path : FileNames, mtime : 1..MaxMtime]

\* what directory_path.glob("*.html") can yield: distinct files, any order
Listings ==
    { l \in UNION { [1..n -> FileEntries] : n \in 0..Cardinality(FileNames) } :
        \A i, j \in 1..Len(l) : i # j => l[i].path # l[j].path }

RECURSIVE InsertByMtime(_, _)
\* insert e after every entry whose mtime is not larger (a stable sort)
InsertByMtime(sorted, e) ==
    IF sorted = <<>> THEN <<e>>
    ELSE IF Head(sorted).mtime <= e.mtime
         THEN <<Head(sorted)>> \o InsertByMtime(Tail(sorted), e)
         ELSE <<e>> \o sorted

RECURSIVE SortByMtime(_)
\* html_files.sort(key=lambda x: x[1])
SortByMtime(l) ==
    IF l = <<>> THEN <<>>
    ELSE InsertByMtime(SortByMtime(SubSeq(l, 1, Len(l) - 1)), l[Len(l)])

\* the paths of a list of (path, mtime) entries
Paths(l) == [i \in 1..Len(l) |-> l[i].path]

\* the Markdown the remote model returns for a file: its own content,
\* here the file's stem, with surrounding whitespace
ApiText(path) == <<" ">> \o Stem(path) \o <<"\n">>

\* clean_filename and ApiText of each name the directory may hold
TitleOf == [f \in FileNames |-> clean_filename(f)]

MarkdownOf == [f \in FileNames |-> ApiText(f)]

\* output.separator, its default
Separator == <<"-", "-", "-">>

(***************************************************************************)
(* Configuration values                                                    *)
(*                                                                         *)
(* A JSON value is [t, v]: t is "dict" and v a function from keys to       *)
(* values, or t is "int" and v the number.                                 *)
(***************************************************************************)
DictVal(f) == [t |-> "dict", v |-> f]
IntVal(n) == [t |-> "int", v |-> n]

\* what an operation that raised evaluates to
RaisedVal == [t |-> "raised", v |-> 0]

RECURSIVE SplitFrom(_, _, _)
\* key.split('.'): cur is the segment being read
SplitFrom(s, i, cur) ==
    IF i > Len(s) THEN <<cur>>
    ELSE IF s[i] = "." THEN <<cur>> \o SplitFrom(s, i + 1, <<>>)
    ELSE SplitFrom(s, i + 1, Append(cur, s[i]))

Split(key) == SplitFrom(key, 1, <<>>)

RECURSIVE GetPathUnchecked(_, _, _)
\* a traversal without the isinstance test: a key looked up in a value
\* that is not a mapping raises
GetPathUnchecked(value, keys, default) ==
    IF keys = <<>> THEN value
    ELSE IF value.t # "dict" THEN RaisedVal
    ELSE IF Head(keys) \in DOMAIN value.v
         THEN GetPathUnchecked(value.v[Head(keys)], Tail(keys), default)
         ELSE default

RECURSIVE GetPath(_, _, _)
\* the loop of Config.get over the segments of the key
GetPath(value, keys, default) ==
    IF keys = <<>> THEN value
    ELSE IF value.t = "dict" /\ Head(keys) \in DOMAIN value.v
         THEN GetPath(value.v[Head(keys)], Tail(keys), default)
         ELSE default

\* Config.get(key, default) on the document doc
ConfigGet(doc, key, default) == GetPath(doc, Split(key), default)

KProcessing == <<"p", "r", "o", "c", "e", "s", "s", "i", "n", "g">>
KMaxConcurrent == <<"m", "a", "x", "_", "c", "o", "n", "c", "u", "r", "r", "e", "n", "t">>
KOther == <<"x">>

\* the key 'processing.max_concurrent'
KeyMaxConcurrent == KProcessing \o <<".">> \o KMaxConcurrent

\* config.get('processing.max_concurrent', 20): the default
DefaultMaxConcurrent == 20

(***************************************************************************)
(* State of one run of main()                                              *)
(***************************************************************************)
VARIABLES
    pc,               \* where main() / convert_directory is
    max_concurrent,   \* config.get('processing.max_concurrent')
    max_retries,      \* config.get('gemini.max_retries')
    html_files,       \* the paths of the discovered files, sorted by mtime (the
                      \* mtime of an entry is not read again after the sort)
    output_exists,    \* os.path.exists(output_path) at the check
    output_path,      \* "unset", "orig", "stamped" or "None"
    tasks,            \* per file index: [st, attempt, result]
    semaphore,        \* free permits of self.semaphore
    finished,         \* task indices in completion order, not yet collected
    awaited,          \* how many tasks the collection loop has awaited
    processed_files,  \* results collected so far, in completion order
    ordered_results,  \* results in discovery order
    out_file,         \* [target, chunks, complete]: the file generate_output wrote
    report,           \* the printed counts [found, processed], or <<>>
    exit_code,        \* -1 while running, then the process's exit code
    interrupted_in,   \* the pc at which KeyboardInterrupt arrived, or "no"
    printed,          \* the message convert_directory ended with, or ""
    \* the remote client under a clock (ClientSpec)
    rate_limit,       \* config.get('processing.rate_limit_per_minute')
    retry_delay_base, \* config.get('gemini.retry_delay_base'), in ticks
    level,            \* the rate limiter's bucket level, in 1/TicksPerPeriod permits
    calls,            \* the age in ticks of each remote call begun within the
                      \* last 60 seconds
    docs,             \* per document: the state of its convert_html_to_markdown
    \* the start of main() (ConfigSpec)
    config,           \* config.config, the parsed configuration document
    args_concurrent,  \* args.concurrent: [given, value]
    start_pc,         \* "loaded", "overridden", "constructed" or "crashed"
    ceiling,          \* the value self.semaphore was built with
    got,              \* the last Config.get: [asked, key, default, value]
    \* clean_filename on its own (TitleSpec)
    name_arg,         \* the argument filename
    cleaned           \* [times, prev, text]: the number of applications, the
                      \* argument and the result of the last one

mainVars == <<pc, max_concurrent, max_retries, html_files, output_exists, output_path,
              tasks, semaphore, finished, awaited, processed_files, ordered_results,
              out_file, report, exit_code, interrupted_in, printed>>

clientVars == <<rate_limit, retry_delay_base, level, calls, docs>>

cfgVars == <<config, args_concurrent, start_pc, ceiling, got>>

titleVars == <<name_arg, cleaned>>

vars == <<mainVars, clientVars, cfgVars, titleVars>>

NoArg == [given |-> FALSE, value |-> 0]

NoQuery == [asked |-> FALSE, key |-> <<>>, default |-> IntVal(0), value |-> IntVal(0)]

NoTitle == [times |-> 0, prev |-> <<>>, text |-> <<>>]

NoTask == [st |-> "pending", attempt |-> 0, result |-> <<>>]

NoFile == [target |-> "none", chunks |-> <<>>, complete |-> FALSE]

Init ==
    /\ pc = "discover"
    /\ max_concurrent \in 0..MaxConcurrent
    /\ max_retries \in 0..MaxRetries
    /\ html_files = <<>>
    /\ output_exists = FALSE
    /\ output_path = "unset"
    /\ tasks = <<>>
    /\ semaphore = max_concurrent
    /\ finished = <<>>
    /\ awaited = 0
    /\ processed_files = <<>>
    /\ ordered_results = <<>>
    /\ out_file = NoFile
    /\ report = <<>>
    /\ exit_code = -1
    /\ interrupted_in = "no"
    /\ printed = ""
    /\ rate_limit = 1
    /\ retry_delay_base = 1
    /\ level = 0
    /\ calls = <<>>
    /\ docs = <<>>
    /\ config = IntVal(0)
    /\ args_concurrent = NoArg
    /\ start_pc = "idle"
    /\ ceiling = 0
    /\ got = NoQuery
    /\ name_arg = <<>>
    /\ cleaned = NoTitle

(***************************************************************************)
(* convert_directory                                                       *)
(***************************************************************************)
\* an empty check that lets an empty list through
NoFilesFoundUnchecked(files) ==
    /\ pc' = "confirm"
    /\ UNCHANGED printed

\* if not html_files: print(...); return
NoFilesFound(files) ==
    IF files = <<>>
    THEN pc' = "returned" /\ printed' = "No HTML files found in the directory."
    ELSE pc' = "confirm" /\ UNCHANGED printed

\* discover_html_files and the empty check of convert_directory
Discover ==
    /\ pc = "discover"
    /\ \E exists \in BOOLEAN, listing \in Listings :
          /\ html_files' = IF exists THEN Paths(SortByMtime(listing)) ELSE <<>>
          /\ NoFilesFound(html_files')
    /\ UNCHANGED <<cfgVars, titleVars, clientVars, max_concurrent, max_retries, output_exists, output_path, tasks,
                   semaphore, finished, awaited, processed_files, ordered_results,
                   out_file, report, exit_code, interrupted_in>>

\* check_output_file up to the prompt
CheckOutputFile ==
    /\ pc = "confirm"
    /\ \E exists \in BOOLEAN :
          /\ output_exists' = exists
          /\ IF exists
             THEN pc' = "prompt" /\ UNCHANGED output_path
             ELSE pc' = "dispatch" /\ output_path' = "orig"
    /\ UNCHANGED <<cfgVars, titleVars, clientVars, max_concurrent, max_retries, html_files, tasks, semaphore, finished,
                   awaited, processed_files, ordered_results, out_file, report,
                   exit_code, interrupted_in, printed>>

Choices == {"1", "2", "3", "x"}

\* a prompt whose cancellation does not end the run
PromptCancelIgnored ==
    /\ pc = "prompt"
    /\ \E choice \in Choices :
          CASE choice = "1" ->
                 pc' = "dispatch" /\ output_path' = "orig" /\ UNCHANGED printed
            [] choice = "2" ->
                 pc' = "dispatch" /\ output_path' = "stamped" /\ UNCHANGED printed
            [] choice = "3" ->
                 /\ pc' = "dispatch"
                 /\ output_path' = "None"
                 /\ printed' = "Operation cancelled."
            [] OTHER -> UNCHANGED <<pc, output_path, printed>>
    /\ UNCHANGED <<cfgVars, titleVars, clientVars, max_concurrent, max_retries, html_files, output_exists,
                   tasks, semaphore, finished, awaited, processed_files, ordered_results,
                   out_file, report, exit_code, interrupted_in>>

\* one pass of the input loop of check_output_file
Prompt ==
    /\ pc = "prompt"
    /\ \E choice \in Choices :
          CASE choice = "1" ->
                 pc' = "dispatch" /\ output_path' = "orig" /\ UNCHANGED printed
            [] choice = "2" ->
                 pc' = "dispatch" /\ output_path' = "stamped" /\ UNCHANGED printed
            [] choice = "3" ->
                 /\ pc' = "returned"
                 /\ output_path' = "None"
                 /\ printed' = "Operation cancelled."
            [] OTHER -> UNCHANGED <<pc, output_path, printed>>
    /\ UNCHANGED <<cfgVars, titleVars, clientVars, max_concurrent, max_retries, html_files, output_exists, tasks,
                   semaphore, finished, awaited, processed_files, ordered_results,
                   out_file, report, exit_code, interrupted_in>>

\* one process_file coroutine per discovered file, handed to as_completed
Dispatch ==
    /\ pc = "dispatch"
    /\ tasks' = [i \in 1..Len(html_files) |-> NoTask]
    /\ pc' = "collect"
    /\ UNCHANGED <<cfgVars, titleVars, clientVars, max_concurrent, max_retries, html_files, output_exists, output_path,
                   semaphore, finished, awaited, processed_files, ordered_results,
                   out_file, report, exit_code, interrupted_in, printed>>

(***************************************************************************)
(* process_file, one task                                                  *)
(***************************************************************************)
TaskVarsUnchanged ==
    UNCHANGED <<cfgVars, titleVars, clientVars, pc, max_concurrent, max_retries, html_files, output_exists, output_path,
                awaited, processed_files, ordered_results, out_file, report,
                exit_code, interrupted_in, printed>>

\* Path(file_path).name
FileName(i) == html_files[i]

\* a semaphore that never makes a task wait
CanAcquireAlways == TRUE

\* the semaphore lets a task in only while a permit is free
CanAcquire == semaphore > 0

\* the task returns result: the semaphore is released on the way out
TaskReturns(i, result) ==
    /\ tasks' = [tasks EXCEPT ![i].st = "returned", ![i].result = result]
    /\ semaphore' = semaphore + 1
    /\ finished' = Append(finished, i)

\* a failure path that leaves the block without giving the permit back
TaskRaisesNoRelease(i) ==
    /\ tasks' = [tasks EXCEPT ![i].st = "raised"]
    /\ UNCHANGED semaphore
    /\ finished' = Append(finished, i)

\* the task raises: logged by process_file, re-raised, semaphore released
TaskRaises(i) ==
    /\ tasks' = [tasks EXCEPT ![i].st = "raised"]
    /\ semaphore' = semaphore + 1
    /\ finished' = Append(finished, i)

\* what convert_html_to_markdown does once an attempt has failed
AfterFailedAttempt(i) ==
    IF tasks[i].attempt < max_retries - 1
    THEN /\ tasks' = [tasks EXCEPT ![i].attempt = @ + 1]
         /\ UNCHANGED <<semaphore, finished>>
    ELSE TaskRaises(i)

\* async with self.semaphore is entered; the file is read and cleaned and
\* the retry loop is reached without a suspension point in between
Acquire(i) ==
    /\ pc = "collect"
    /\ tasks[i].st = "pending"
    /\ CanAcquire
    /\ \E readable \in BOOLEAN :
          IF ~readable
          \* open() raises: the permit is taken and given back
          THEN /\ tasks' = [tasks EXCEPT ![i].st = "raised"]
               /\ finished' = Append(finished, i)
               /\ UNCHANGED semaphore
          ELSE IF max_retries = 0
               \* range(0) is empty: the coroutine falls off its end
               THEN /\ tasks' = [tasks EXCEPT ![i].st = "returned",
                                              ![i].result = <<TitleOf[FileName(i)], NoneVal>>]
                    /\ finished' = Append(finished, i)
                    /\ UNCHANGED semaphore
               ELSE /\ tasks' = [tasks EXCEPT ![i].st = "calling"]
                    /\ semaphore' = semaphore - 1
                    /\ UNCHANGED finished
    /\ TaskVarsUnchanged

ApiOutcomes == {"text", "no_text", "error"}

\* one attempt of the retry loop: _make_api_call returns or raises
ApiCall(i) ==
    /\ pc = "collect"
    /\ tasks[i].st = "calling"
    /\ \E outcome \in ApiOutcomes :
          CASE outcome = "text" ->
                 TaskReturns(i, <<TitleOf[FileName(i)], MarkdownOf[FileName(i)]>>)
            [] outcome = "no_text" ->
                 TaskReturns(i, <<TitleOf[FileName(i)], NoneVal>>)
            [] outcome = "error" -> AfterFailedAttempt(i)
    /\ TaskVarsUnchanged

(***************************************************************************)
(* collection, reordering, output                                          *)
(***************************************************************************)
\* a loop that is left after the first task it awaited
CollectDoneEarly == awaited >= 1

\* the loop over asyncio.as_completed goes on while tasks are outstanding
CollectDone == awaited = Len(html_files)

\* an except branch that lets the exception out of convert_directory
OnTaskErrorAbort == "raised"

\* except Exception in the loop: the failure is logged, the loop goes on
OnTaskError == "collect"

\* one iteration of the loop over asyncio.as_completed(tasks)
Collect ==
    /\ pc = "collect"
    /\ ~CollectDone
    /\ finished # <<>>
    /\ LET i == Head(finished)
       IN  /\ finished' = Tail(finished)
           /\ awaited' = awaited + 1
           /\ IF tasks[i].st = "returned"
              THEN /\ processed_files' = Append(processed_files, tasks[i].result)
                   /\ pc' = "collect"
              ELSE /\ processed_files' = processed_files
                   /\ pc' = OnTaskError
    /\ UNCHANGED <<cfgVars, titleVars, clientVars, max_concurrent, max_retries, html_files, output_exists,
                   output_path, tasks, semaphore, ordered_results, out_file, report,
                   exit_code, interrupted_in, printed>>

RECURSIVE LastWithTitle(_, _, _)
\* file_to_result[title]: a later result with the same title replaces an earlier one
LastWithTitle(results, title, i) ==
    IF i = 0 THEN <<>>
    ELSE IF results[i][1] = title THEN results[i]
    ELSE LastWithTitle(results, title, i - 1)

file_to_result(title) == LastWithTitle(processed_files, title, Len(processed_files))

RECURSIVE OrderedFrom(_)
OrderedFrom(i) ==
    IF i > Len(html_files) THEN <<>>
    ELSE LET r == file_to_result(TitleOf[FileName(i)])
         IN  (IF r # <<>> THEN <<r>> ELSE <<>>) \o OrderedFrom(i + 1)

\* the loop is over; results are mapped back to the discovery order
Reorder ==
    /\ pc = "collect"
    /\ CollectDone
    /\ ordered_results' = OrderedFrom(1)
    /\ pc' = "write"
    /\ UNCHANGED <<cfgVars, titleVars, clientVars, max_concurrent, max_retries, html_files, output_exists, output_path,
                   tasks, semaphore, finished, awaited, processed_files, out_file,
                   report, exit_code, interrupted_in, printed>>

Chunk(kind, text) == [kind |-> kind, text |-> text]

RECURSIVE WriteFromTrailing(_, _, _)
\* a loop that writes the separator after the last result too
WriteFromTrailing(results, i, add_headers) ==
    IF i > Len(results) THEN [chunks |-> <<>>, raised |-> FALSE]
    ELSE LET filename == results[i][1]
             content == results[i][2]
             header == IF add_headers
                       THEN <<Chunk("header", <<"#", " ">> \o filename \o <<"\n", "\n">>)>>
                       ELSE <<>>
         IN  IF content = NoneVal
             THEN [chunks |-> header, raised |-> TRUE]
             ELSE LET rest == WriteFromTrailing(results, i + 1, add_headers)
                  IN  [chunks |-> header
                                  \o <<Chunk("body", Strip(content)),
                                       Chunk("blank", <<"\n", "\n">>),
                                       Chunk("separator", Separator \o <<"\n", "\n">>)>>
                                  \o rest.chunks,
                       raised |-> rest.raised]

RECURSIVE WriteFrom(_, _, _)
\* the loop of generate_output from result i on: the chunks it writes, one
\* per f.write, and whether it raised (None has no strip)
WriteFrom(results, i, add_headers) ==
    IF i > Len(results) THEN [chunks |-> <<>>, raised |-> FALSE]
    ELSE LET filename == results[i][1]
             content == results[i][2]
             header == IF add_headers
                       THEN <<Chunk("header", <<"#", " ">> \o filename \o <<"\n", "\n">>)>>
                       ELSE <<>>
         IN  IF content = NoneVal
             THEN [chunks |-> header, raised |-> TRUE]
             ELSE LET rest == WriteFrom(results, i + 1, add_headers)
                      sep == IF i < Len(results)
                             THEN <<Chunk("separator", Separator \o <<"\n", "\n">>)>>
                             ELSE <<>>
                  IN  [chunks |-> header
                                  \o <<Chunk("body", Strip(content)), Chunk("blank", <<"\n", "\n">>)>>
                                  \o sep \o rest.chunks,
                       raised |-> rest.raised]

\* generate_output and the two closing prints of convert_directory
GenerateOutput ==
    /\ pc = "write"
    /\ \E add_headers \in BOOLEAN :
          LET w == WriteFrom(ordered_results, 1, add_headers)
          IN  /\ out_file' = [target |-> output_path, chunks |-> w.chunks,
                              complete |-> ~w.raised]
              /\ IF w.raised
                 THEN pc' = "raised" /\ UNCHANGED <<report, printed>>
                 ELSE /\ pc' = "returned"
                      /\ report' = [found |-> Len(html_files),
                                    processed |-> Len(ordered_results)]
                      /\ printed' = "Conversion completed!"
    /\ UNCHANGED <<cfgVars, titleVars, clientVars, max_concurrent, max_retries, html_files, output_exists, output_path,
                   tasks, semaphore, finished, awaited, processed_files,
                   ordered_results, exit_code, interrupted_in>>

(***************************************************************************)
(* main                                                                    *)
(***************************************************************************)
\* a main() that exits with 1 however asyncio.run ended
ExitCodeAlwaysOne(how) == 1

\* the exit code main() ends with once asyncio.run is over
ExitCodeOf(how) == IF how = "returned" THEN 0 ELSE 1

\* asyncio.run returned, or raised an Exception
MainExit ==
    /\ pc \in {"returned", "raised"}
    /\ exit_code' = ExitCodeOf(pc)
    /\ pc' = "exit"
    /\ UNCHANGED <<cfgVars, titleVars, clientVars, max_concurrent, max_retries, html_files, output_exists, output_path,
                   tasks, semaphore, finished, awaited, processed_files,
                   ordered_results, out_file, report, interrupted_in, printed>>

Running == {"discover", "confirm", "prompt", "dispatch", "collect", "write"}

\* KeyboardInterrupt while asyncio.run is under way
Interrupt ==
    /\ pc \in Running
    /\ interrupted_in' = pc
    /\ exit_code' = 1
    /\ pc' = "exit"
    /\ UNCHANGED <<cfgVars, titleVars, clientVars, max_concurrent, max_retries, html_files, output_exists, output_path,
                   tasks, semaphore, finished, awaited, processed_files,
                   ordered_results, out_file, report, printed>>

Next ==
    \/ Discover
    \/ CheckOutputFile
    \/ Prompt
    \/ Dispatch
    \/ \E i \in DOMAIN tasks : Acquire(i)
    \/ \E i \in DOMAIN tasks : ApiCall(i)
    \/ Collect
    \/ Reorder
    \/ GenerateOutput
    \/ MainExit
    \/ Interrupt

Spec == Init /\ [][Next]_vars

(***************************************************************************)
(* convert_directory from the dispatch on, without interruption            *)
(***************************************************************************)
\* a directory where every file has the same mtime, in the order glob yields
FairListing ==
    CHOOSE l \in Listings : Len(l) = Cardinality(FileNames) /\ \A i \in 1..Len(l) : l[i].mtime = 1

\* what discover_html_files returns when the directory holds the first
\* 1..MaxFairFiles of these files
Discovered ==
    {Paths(SortByMtime(SubSeq(FairListing, 1, n))) : n \in 1..MaxFairFiles}

\* the files are discovered and the output target is confirmed
FairInit ==
    /\ pc = "dispatch"
    /\ max_concurrent \in 0..MaxConcurrent
    /\ max_retries \in 0..MaxRetries
    /\ html_files \in Discovered
    /\ output_exists \in BOOLEAN
    /\ output_path \in IF output_exists THEN {"orig", "stamped"} ELSE {"orig"}
    /\ tasks = <<>>
    /\ semaphore = max_concurrent
    /\ finished = <<>>
    /\ awaited = 0
    /\ processed_files = <<>>
    /\ ordered_results = <<>>
    /\ out_file = NoFile
    /\ report = "none"
    /\ exit_code = -1
    /\ interrupted_in = "no"
    /\ printed = ""
    /\ rate_limit = 1
    /\ retry_delay_base = 1
    /\ level = 0
    /\ calls = <<>>
    /\ docs = <<>>
    /\ config = IntVal(0)
    /\ args_concurrent = NoArg
    /\ start_pc = "idle"
    /\ ceiling = 0
    /\ got = NoQuery
    /\ name_arg = <<>>
    /\ cleaned = NoTitle

FairNext ==
    \/ Dispatch
    \/ \E i \in DOMAIN tasks : Acquire(i)
    \/ \E i \in DOMAIN tasks : ApiCall(i)
    \/ Collect
    \/ Reorder

\* the event loop runs a task that can run, a remote call returns or raises
\* in the end, and convert_directory is resumed when it can go on
FairSpec == FairInit /\ [][FairNext]_vars /\ WF_vars(FairNext)

(***************************************************************************)
(* GeminiAPIClient under a clock                                           *)
(*                                                                         *)
(* Time is counted in ticks, TicksPerPeriod of them to the 60 seconds of   *)
(* AsyncLimiter(rate_limit, 60), and every duration is kept relative to    *)
(* the present: a sleep by the ticks it still has to run, a call by its    *)
(* age.  The limiter is a leaky bucket: it holds at most rate_limit        *)
(* permits' worth, an acquisition adds one permit and the bucket leaks     *)
(* rate_limit permits per period.  level counts in units of                *)
(* 1/TicksPerPeriod permit so that the leak of one tick is a whole number. *)
(* A sleep ends at the tick it was asked to end at.                        *)
(***************************************************************************)
RECURSIVE Pow2(_)
Pow2(n) == IF n = 0 THEN 1 ELSE 2 * Pow2(n - 1)

\* a delay that grows linearly
BackoffDelayLinear(base, attempt) == base * (attempt + 1)

\* delay = self.retry_delay_base * (2 ** attempt)
BackoffDelay(base, attempt) == base * Pow2(attempt)

\* if attempt < self.max_retries - 1
MoreAttempts(attempt) == attempt < max_retries - 1

\* AsyncLimiter.has_capacity() for one permit
HasCapacity == level + TicksPerPeriod <= rate_limit * TicksPerPeriod

\* st: where convert_html_to_markdown is; attempt: the loop variable;
\* remaining: ticks the current sleep has yet to run; server_delay: the
\* retryDelay of the last failure (0: none); since_call: ticks since the
\* last remote call failed; since_except: ticks since that failure reached
\* the except branch of the retry loop; succeeded: a remote call of this
\* document has returned normally
NoDoc == [st |-> "limiter", attempt |-> 0, remaining |-> 0, server_delay |-> 0,
          since_call |-> 0, since_except |-> 0, succeeded |-> FALSE]

ClientInit ==
    /\ pc = "client"
    /\ max_concurrent = 1
    /\ max_retries \in 0..MaxClientRetries
    /\ html_files = <<>>
    /\ output_exists = FALSE
    /\ output_path = "unset"
    /\ tasks = <<>>
    /\ semaphore = max_concurrent
    /\ finished = <<>>
    /\ awaited = 0
    /\ processed_files = <<>>
    /\ ordered_results = <<>>
    /\ out_file = NoFile
    /\ report = <<>>
    /\ exit_code = -1
    /\ interrupted_in = "no"
    /\ printed = ""
    /\ rate_limit \in 1..MaxRateLimit
    /\ retry_delay_base \in 1..MaxDelayBase
    /\ level = 0
    /\ calls = <<>>
    /\ docs = [d \in 1..NDocs |-> NoDoc]
    /\ config = IntVal(0)
    /\ args_concurrent = NoArg
    /\ start_pc = "idle"
    /\ ceiling = 0
    /\ got = NoQuery
    /\ name_arg = <<>>
    /\ cleaned = NoTitle

\* the call of _make_api_call that begins attempt number attempt
StartCall(d, attempt) ==
    /\ docs' = [docs EXCEPT ![d].st = "inflight", ![d].attempt = attempt]
    /\ calls' = Append(calls, 0)

\* async with self.rate_limiter: entry, and the first attempt
AcquireLimiter(d) ==
    /\ pc = "client"
    /\ docs[d].st = "limiter"
    /\ HasCapacity
    /\ level' = level + TicksPerPeriod
    /\ IF max_retries = 0
       THEN docs' = [docs EXCEPT ![d].st = "returned"] /\ UNCHANGED calls
       ELSE StartCall(d, 0)
    /\ UNCHANGED <<cfgVars, titleVars, mainVars, rate_limit, retry_delay_base>>

\* the except branch of convert_html_to_markdown is entered
FailedAttempt(d, doc) ==
    IF MoreAttempts(doc.attempt)
    THEN docs' = [docs EXCEPT ![d] = [doc EXCEPT !.st = "backoff", !.since_except = 0,
                     !.remaining = BackoffDelay(retry_delay_base, doc.attempt)]]
    ELSE docs' = [docs EXCEPT ![d] = [doc EXCEPT !.st = "raised", !.since_except = 0]]

\* a _make_api_call that re-raises without sleeping
ServerSleepSkipped(d, doc, delay) == FailedAttempt(d, doc)

\* await asyncio.sleep(retry_delay) in the except branch of _make_api_call
ServerSleep(d, doc, delay) ==
    docs' = [docs EXCEPT ![d] = [doc EXCEPT !.st = "server_sleep", !.remaining = delay]]

ClientOutcomes == {"text", "no_text", "error", "quota"}

\* generate_content returns or raises; a 429 RESOURCE_EXHAUSTED carrying
\* a retryDelay makes _make_api_call sleep before it re-raises
ApiReturns(d) ==
    /\ pc = "client"
    /\ docs[d].st = "inflight"
    /\ \E outcome \in ClientOutcomes, delay \in 1..MaxServerDelay :
          LET doc == [docs[d] EXCEPT !.since_call = 0, !.since_except = 0,
                         !.server_delay = IF outcome = "quota" THEN delay ELSE 0]
          IN  CASE outcome \in {"text", "no_text"} ->
                     docs' = [docs EXCEPT ![d] = [doc EXCEPT !.st = "returned",
                                                             !.succeeded = TRUE]]
                [] outcome = "error" -> FailedAttempt(d, doc)
                [] outcome = "quota" -> ServerSleep(d, doc, delay)
    /\ UNCHANGED <<cfgVars, titleVars, mainVars, rate_limit, retry_delay_base, level, calls>>

\* asyncio.sleep(retry_delay) is over: _make_api_call re-raises
ServerSleepOver(d) ==
    /\ pc = "client"
    /\ docs[d].st = "server_sleep"
    /\ docs[d].remaining = 0
    /\ FailedAttempt(d, docs[d])
    /\ UNCHANGED <<cfgVars, titleVars, mainVars, rate_limit, retry_delay_base, level, calls>>

\* asyncio.sleep(delay) is over: the loop goes to its next attempt
BackoffOver(d) ==
    /\ pc = "client"
    /\ docs[d].st = "backoff"
    /\ docs[d].remaining = 0
    /\ StartCall(d, docs[d].attempt + 1)
    /\ UNCHANGED <<cfgVars, titleVars, mainVars, rate_limit, retry_delay_base, level>>

Sleeping == {"server_sleep", "backoff"}

RECURSIVE Aged(_)
\* every call one tick older; a call as old as the period leaves the window
Aged(ages) ==
    IF ages = <<>> THEN <<>>
    ELSE (IF Head(ages) + 1 < TicksPerPeriod THEN <<Head(ages) + 1>> ELSE <<>>)
         \o Aged(Tail(ages))

Max(a, b) == IF a >= b THEN a ELSE b

\* one tick passes: sleeps run down, the bucket leaks, the window moves on
Tick ==
    /\ pc = "client"
    /\ \A d \in DOMAIN docs : docs[d].st \in Sleeping => docs[d].remaining > 0
    /\ docs' = [d \in DOMAIN docs |->
                  IF docs[d].st \in Sleeping
                  THEN [docs[d] EXCEPT !.remaining = @ - 1, !.since_call = @ + 1,
                                       !.since_except = @ + 1]
                  ELSE docs[d]]
    /\ level' = Max(0, level - rate_limit)
    /\ calls' = Aged(calls)
    /\ UNCHANGED <<cfgVars, titleVars, mainVars, rate_limit, retry_delay_base>>

ClientNext ==
    \/ \E d \in DOMAIN docs : AcquireLimiter(d)
    \/ \E d \in DOMAIN docs : ApiReturns(d)
    \/ \E d \in DOMAIN docs : ServerSleepOver(d)
    \/ \E d \in DOMAIN docs : BackoffOver(d)
    \/ Tick

ClientSpec == ClientInit /\ [][ClientNext]_vars

(***************************************************************************)
(* The start of main(): load the configuration, apply --concurrent, build  *)
(* the converter.  Config.get may be called at any point after the load.   *)
(***************************************************************************)
Leaves == {IntVal(n) : n \in 1..MaxCfgValue}

\* the values of a section: a mapping with any of the two keys
Sections ==
    UNION {{DictVal(f) : f \in [S -> Leaves]} : S \in SUBSET {KMaxConcurrent, KOther}}

TopValues(k) == IF k = KProcessing THEN Sections \cup Leaves ELSE Leaves

\* what json.load returns: a number, or a mapping with or without a
\* 'processing' entry, itself a section or a number
Documents ==
    {IntVal(1)} \cup
    UNION {{DictVal(f) : f \in {g \in [S -> Sections \cup Leaves] :
                                   \A k \in S : g[k] \in TopValues(k)}}
           : S \in SUBSET {KProcessing, KOther}}

\* args.concurrent: absent (None) or the integer given
Arguments == {NoArg} \cup {[given |-> TRUE, value |-> k] : k \in -1..MaxArg}

Segments == {KProcessing, KMaxConcurrent, KOther, <<>>}

RECURSIVE JoinDots(_)
JoinDots(segs) ==
    IF Len(segs) = 1 THEN segs[1]
    ELSE segs[1] \o <<".">> \o JoinDots(Tail(segs))

\* the dotted keys a caller may ask for
QueryKeys ==
    {JoinDots(segs) : segs \in UNION {[1..n -> Segments] : n \in 1..MaxSegments}}

ConfigInit ==
    /\ pc = "config"
    /\ max_concurrent = 0
    /\ max_retries = 0
    /\ html_files = <<>>
    /\ output_exists = FALSE
    /\ output_path = "unset"
    /\ tasks = <<>>
    /\ semaphore = 0
    /\ finished = <<>>
    /\ awaited = 0
    /\ processed_files = <<>>
    /\ ordered_results = <<>>
    /\ out_file = NoFile
    /\ report = "none"
    /\ exit_code = -1
    /\ interrupted_in = "no"
    /\ printed = ""
    /\ rate_limit = 1
    /\ retry_delay_base = 1
    /\ level = 0
    /\ calls = <<>>
    /\ docs = <<>>
    /\ config \in Documents
    /\ args_concurrent \in Arguments
    /\ start_pc = "loaded"
    /\ ceiling = 0
    /\ got = NoQuery
    /\ name_arg = <<>>
    /\ cleaned = NoTitle

\* a call of Config.get with the default IntVal(0), which no document holds;
\* got keeps one call, the first since the document last changed
Get ==
    /\ start_pc \in {"loaded", "overridden"}
    /\ ~got.asked
    /\ \E key \in QueryKeys :
          got' = [asked |-> TRUE, key |-> key, default |-> IntVal(0),
                  value |-> ConfigGet(config, key, IntVal(0))]
    /\ UNCHANGED <<mainVars, clientVars, titleVars, config, args_concurrent,
                   start_pc, ceiling>>

\* `if args.concurrent:` None and 0 are falsy
IsGiven(arg) == arg.given /\ arg.value # 0

\* config.config['processing']['max_concurrent'] = args.concurrent
Override ==
    /\ start_pc = "loaded"
    /\ IF ~IsGiven(args_concurrent)
       THEN start_pc' = "overridden" /\ UNCHANGED config
       ELSE IF \/ config.t # "dict"
               \/ KProcessing \notin DOMAIN config.v
               \/ config.v[KProcessing].t # "dict"
       THEN start_pc' = "crashed" /\ UNCHANGED config
       ELSE LET section == config.v[KProcessing].v
                updated == [k \in DOMAIN section \cup {KMaxConcurrent} |->
                              IF k = KMaxConcurrent
                              THEN IntVal(args_concurrent.value)
                              ELSE section[k]]
            IN  /\ config' = DictVal([config.v EXCEPT ![KProcessing] = DictVal(updated)])
                /\ start_pc' = "overridden"
    /\ got' = NoQuery
    /\ UNCHANGED <<mainVars, clientVars, titleVars, args_concurrent, ceiling>>

\* asyncio.Semaphore(config.get('processing.max_concurrent', 20))
Construct ==
    /\ start_pc = "overridden"
    /\ LET value == ConfigGet(config, KeyMaxConcurrent, IntVal(DefaultMaxConcurrent))
       IN  /\ got' = [asked |-> TRUE, key |-> KeyMaxConcurrent,
                      default |-> IntVal(DefaultMaxConcurrent), value |-> value]
           /\ IF value.t = "int" /\ value.v >= 0
              THEN start_pc' = "constructed" /\ ceiling' = value.v
              ELSE start_pc' = "crashed" /\ UNCHANGED ceiling
    /\ UNCHANGED <<mainVars, clientVars, titleVars, config, args_concurrent>>

ConfigNext ==
    \/ Get
    \/ Override
    \/ Construct

ConfigSpec == ConfigInit /\ [][ConfigNext]_vars

(***************************************************************************)
(* clean_filename on its own: applied to a file name, then to its result   *)
(***************************************************************************)
\* the pieces file names are made of
Tokens ==
    {<<"a">>, <<".">>, <<"_">>, <<":">>, <<"?">>, <<"&">>, <<";">>,
     <<"a", "m", "p">>, <<"l", "t">>, HtmlExt}

RECURSIVE Concat(_)
Concat(pieces) ==
    IF pieces = <<>> THEN <<>> ELSE Head(pieces) \o Concat(Tail(pieces))

ExampleName == <<"M", "y", ":", "F", "i", "l", "e", "?", ".", "h", "t", "m", "l">>

\* file_path.name: a directory entry, so never ".", and without "/"
Names ==
    ({Concat(p) : p \in UNION {[1..n -> Tokens] : n \in 1..MaxTokens}}
        \cup {ExampleName}) \ {<<".">>}

TitleInit ==
    /\ pc = "title"
    /\ max_concurrent = 0
    /\ max_retries = 0
    /\ html_files = <<>>
    /\ output_exists = FALSE
    /\ output_path = "unset"
    /\ tasks = <<>>
    /\ semaphore = 0
    /\ finished = <<>>
    /\ awaited = 0
    /\ processed_files = <<>>
    /\ ordered_results = <<>>
    /\ out_file = NoFile
    /\ report = "none"
    /\ exit_code = -1
    /\ interrupted_in = "no"
    /\ printed = ""
    /\ rate_limit = 1
    /\ retry_delay_base = 1
    /\ level = 0
    /\ calls = <<>>
    /\ docs = <<>>
    /\ config = IntVal(0)
    /\ args_concurrent = NoArg
    /\ start_pc = "idle"
    /\ ceiling = 0
    /\ got = NoQuery
    /\ name_arg \in Names
    /\ cleaned = NoTitle

\* title = clean_filename(file_path.name)
Clean ==
    /\ pc = "title"
    /\ cleaned.times = 0
    /\ cleaned' = [times |-> 1, prev |-> name_arg, text |-> clean_filename(name_arg)]
    /\ UNCHANGED <<mainVars, clientVars, cfgVars, name_arg>>

\* clean_filename applied to a title
CleanAgain ==
    /\ pc = "title"
    /\ cleaned.times = 1
    /\ cleaned' = [times |-> 2, prev |-> cleaned.text, text |-> clean_filename(cleaned.text)]
    /\ UNCHANGED <<mainVars, clientVars, cfgVars, name_arg>>

TitleNext ==
    \/ Clean
    \/ CleanAgain

TitleSpec == TitleInit /\ [][TitleNext]_vars

(***************************************************************************)
(* Properties                                                              *)
(***************************************************************************)
IsBody(chunk) == chunk.kind = "body"

\* the bodies of the sections of the output file, in file order
Bodies == SelectSeq(out_file.chunks, IsBody)

\* the position in the discovery order of the file whose Markdown is text
SourceOf(text) ==
    CHOOSE i \in 1..Len(html_files) : Strip(ApiText(html_files[i])) = text

Returned == {i \in DOMAIN tasks : tasks[i].st = "returned"}
Raised == {i \in DOMAIN tasks : tasks[i].st = "raised"}

\* C1: the sections of the output file list the files' results in
\* discovery order: a section never comes before a section of a file
\* that was discovered earlier.
C1_OutputInDiscoveryOrder ==
    \A j, k \in 1..Len(Bodies) :
        j < k => SourceOf(Bodies[j].text) <= SourceOf(Bodies[k].text)

\* C2: once the counts are reported, "found" is the number of discovered
\* files, "processed" counts exactly the files whose task returned, and
\* the output holds as many sections: a file whose task raised is in neither.
C2_FailedFileExcluded ==
    report # <<>> =>
        /\ report.found = Len(html_files)
        /\ report.processed = Cardinality(Returned)
        /\ Len(Bodies) = Cardinality(Returned)

\* the tasks between the acquisition and the release of the semaphore
InSection == {i \in DOMAIN tasks : tasks[i].st = "calling"}

\* C3: at most max_concurrent tasks are inside the semaphore at a time.
C3_ConcurrencyCeiling == Cardinality(InSection) <= max_concurrent

\* the ceiling is reached while a further task waits for a permit
C3_Witness ==
    /\ max_concurrent >= 1
    /\ Cardinality(InSection) = max_concurrent
    /\ \E i \in DOMAIN tasks : tasks[i].st = "pending"

\* C4: no more than rate_limit remote calls, retries included, begin
\* within any window of 60 seconds.
C4_RateLimit == Len(calls) <= rate_limit

\* C5: a task that raises leaves its siblings and the run as they are,
\* the collection loop goes on after awaiting a failed task, and the run
\* is past the loop only when every task has returned or raised.
C5_FailureIsolated ==
    /\ [][\A i \in DOMAIN tasks :
            (tasks[i].st # "raised" /\ tasks'[i].st = "raised") =>
                /\ pc' = pc
                /\ exit_code' = exit_code
                /\ \A j \in DOMAIN tasks \ {i} : tasks'[j] = tasks[j]]_vars
    /\ [][(awaited' = awaited + 1 /\ tasks[Head(finished)].st = "raised") =>
            (pc' = "collect" /\ exit_code' = -1)]_vars
    /\ [](pc \in {"write", "raised"} => Returned \cup Raised = DOMAIN tasks)

\* a run with a failed and a successful task has written its output file
C5_Witness ==
    /\ Raised # {}
    /\ Returned # {}
    /\ out_file.target # "none"
    /\ out_file.complete
    /\ report # <<>>

\* C6: the retry loop makes at most max_retries calls; the attempt that
\* follows failed attempt a begins retry_delay_base * 2^a after the failure
\* was caught; the failure of the last attempt is raised without a sleep.
C6_ExponentialBackoff ==
    \A d \in DOMAIN docs :
        /\ docs[d].st \in {"inflight", "server_sleep", "backoff"} =>
              docs[d].attempt < max_retries
        /\ (docs[d].st = "inflight" /\ docs[d].attempt >= 1) =>
              docs[d].since_except = retry_delay_base * 2 ^ (docs[d].attempt - 1)
        /\ docs[d].st = "raised" =>
              (docs[d].attempt = max_retries - 1 /\ docs[d].since_except = 0)

\* the fourth attempt of a document has begun, after the third backoff
C6_Witness ==
    \E d \in DOMAIN docs :
        /\ docs[d].st = "inflight"
        /\ docs[d].attempt = 3
        /\ docs[d].since_except = retry_delay_base * 4

\* C7 as stated: after a 429 that carries a retry delay, the next attempt
\* begins exactly that delay after the failed call.
C7_ServerDelayOnly ==
    \A d \in DOMAIN docs :
        (docs[d].st = "inflight" /\ docs[d].attempt >= 1 /\ docs[d].server_delay > 0) =>
            docs[d].since_call = docs[d].server_delay

\* C7, amended: after a 429 that carries a retry delay, the next attempt
\* begins after that delay plus the exponential delay of the failed attempt.
C7_ServerDelayAdded ==
    \A d \in DOMAIN docs :
        (docs[d].st = "inflight" /\ docs[d].attempt >= 1 /\ docs[d].server_delay > 0) =>
            docs[d].since_call =
                docs[d].server_delay + retry_delay_base * 2 ^ (docs[d].attempt - 1)

\* an attempt has begun after a 429 with a retry delay
C7_Witness ==
    \E d \in DOMAIN docs :
        /\ docs[d].st = "inflight"
        /\ docs[d].attempt >= 1
        /\ docs[d].server_delay > 0

\* C8: the output file is opened only when every dispatched task has
\* returned or raised and has been awaited; a run interrupted before the
\* write has left no output file.
C8_WriteAfterAllCollected ==
    /\ out_file.target # "none" =>
          /\ tasks # <<>>
          /\ Returned \cup Raised = DOMAIN tasks
          /\ awaited = Len(html_files)
    /\ interrupted_in \in {"discover", "confirm", "prompt", "dispatch", "collect"} =>
          out_file = NoFile

\* the output was written in a run of several tasks, one of which failed
C8_Witness ==
    /\ out_file.target # "none"
    /\ Len(html_files) >= 2
    /\ Raised # {}
    /\ Returned # {}

\* C9: an output file that was opened holds a section for every ordered
\* result and was written to its end.
C9_NoPartialOutput ==
    out_file.target # "none" =>
        /\ out_file.complete
        /\ Len(Bodies) = Len(ordered_results)

\* C10 as stated: a run cancelled at the overwrite prompt exits with 1.
C10_CancelExitsOne ==
    (pc = "exit" /\ output_path = "None") => exit_code = 1

\* C10, amended: a run cancelled at the overwrite prompt exits with 0.
C10_CancelExitsZero ==
    (pc = "exit" /\ output_path = "None") => exit_code = 0

\* the user cancelled at the prompt and the process is over
C10_Witness ==
    /\ pc = "exit"
    /\ output_exists
    /\ output_path = "None"


\* C11: the output target is checked only after discovery found files; no
\* task exists before the target is resolved to a path; after a
\* cancellation no task exists, no file was written and the run is over;
\* a step that stays at the prompt changes nothing.
C11_ConfirmBeforeDispatch ==
    /\ [](pc \in {"confirm", "prompt"} => (html_files # <<>> /\ tasks = <<>>))
    /\ [](tasks # <<>> => output_path \in {"orig", "stamped"})
    /\ [](output_path = "None" =>
            (tasks = <<>> /\ out_file = NoFile /\ pc \in {"returned", "exit"}))
    /\ [][(pc = "prompt" /\ pc' = "prompt") => UNCHANGED vars]_vars

\* the user cancelled a run that had found several files
C11_Witness ==
    /\ output_path = "None"
    /\ output_exists
    /\ Len(html_files) >= 2
    /\ tasks = <<>>
    /\ pc = "returned"


\* C12: when discovery found no file and the run was not interrupted, the
\* run has ended normally with the "no files" message: no prompt was
\* shown, no task exists, no file was written and the exit code is 0.
C12_NoFilesEndsNormally ==
    (pc # "discover" /\ html_files = <<>> /\ interrupted_in = "no") =>
        /\ pc \in {"returned", "exit"}
        /\ printed = "No HTML files found in the directory."
        /\ output_path = "unset"
        /\ tasks = <<>>
        /\ out_file = NoFile
        /\ pc = "exit" => exit_code = 0

\* the process is over after a discovery that found nothing
C12_Witness ==
    /\ pc = "exit"
    /\ html_files = <<>>
    /\ interrupted_in = "no"
    /\ exit_code = 0


\* t is s without its leading and trailing whitespace
IsTrimOf(t, s) ==
    /\ t # <<>> => (t[1] \notin Whitespace /\ t[Len(t)] \notin Whitespace)
    /\ \E a \in 0..Len(s) :
          /\ a + Len(t) <= Len(s)
          /\ SubSeq(s, a + 1, a + Len(t)) = t
          /\ \A k \in 1..Len(s) : (k <= a \/ k > a + Len(t)) => s[k] \in Whitespace

\* the chunks of section i of a file of n sections begin after position
\* base: a header if h = 1, the trimmed body, a blank line, and a
\* separator unless the section is the last
IsSection(c, base, h, r, last) ==
    /\ h = 1 => c[base + 1] = Chunk("header", <<"#", " ">> \o r[1] \o <<"\n", "\n">>)
    /\ c[base + h + 1].kind = "body"
    /\ IsTrimOf(c[base + h + 1].text, r[2])
    /\ c[base + h + 2] = Chunk("blank", <<"\n", "\n">>)
    /\ ~last => c[base + h + 3] = Chunk("separator", Separator \o <<"\n", "\n">>)

\* C13: for n >= 1 results that all have a text, the file holds exactly n
\* sections in the order of the results, all with a header or all
\* without, and a separator after every section but the last.
C13_SectionLayout ==
    LET n == Len(ordered_results)
        c == out_file.chunks
    IN  (/\ out_file.target # "none"
         /\ n >= 1
         /\ \A i \in 1..n : ordered_results[i][2] # NoneVal) =>
            /\ out_file.complete
            /\ \E h \in {0, 1} :
                  /\ Len(c) = n * (h + 3) - 1
                  /\ \A i \in 1..n :
                        IsSection(c, (i - 1) * (h + 3), h, ordered_results[i], i = n)

\* a file of three sections was written
C13_Witness ==
    /\ out_file.complete
    /\ Len(ordered_results) = 3
    /\ Len(Bodies) = 3
    /\ \E k \in 1..Len(out_file.chunks) : out_file.chunks[k].kind = "header"

RECURSIVE PathsOf(_)
\* the key paths present in a value: the empty path, and every key of a
\* mapping followed by a path present in its value
PathsOf(value) ==
    {<<>>} \cup
    IF value.t = "dict"
    THEN UNION {{<<k>> \o p : p \in PathsOf(value.v[k])} : k \in DOMAIN value.v}
    ELSE {}

\* C14: whenever Config.get is asked for a dotted key whose path is absent
\* from the document (a segment is missing, or a value on the way is not a
\* mapping), it returns the default it was given, and it never raises.
C14_AbsentKeyGivesDefault ==
    got.asked =>
        /\ got.value # RaisedVal
        /\ Split(got.key) \notin PathsOf(config) => got.value = got.default

\* a key asked for below a 'processing' entry that is a number
C14_Witness ==
    /\ got.asked
    /\ got.key = KeyMaxConcurrent
    /\ config.t = "dict"
    /\ KProcessing \in DOMAIN config.v
    /\ config.v[KProcessing].t = "int"
    /\ got.value = got.default

\* C17: when --concurrent K is given, the start of main() ends with the
\* converter built and its semaphore holding K permits, whatever the
\* configuration document holds and whatever integer K is.
C17_OverrideApplied ==
    (args_concurrent.given /\ start_pc \in {"constructed", "crashed"}) =>
        (start_pc = "constructed" /\ ceiling = args_concurrent.value)

Has(s, cs) == \E i \in 1..Len(s) : s[i] \in cs

NotSpecial(c) == c \notin SpecialChars

MyFileSpaced == <<"M", "y", " ", "F", "i", "l", "e">>

MyFileJoined == <<"M", "y", "F", "i", "l", "e">>

\* C15 as stated: clean_filename strips the extension and the characters
\* < > : " / \ | ? * and turns "My:File?.html" into "My File".
C15_ExampleSpaced ==
    cleaned.times >= 1 =>
        /\ ~Has(cleaned.text, SpecialChars)
        /\ (cleaned.times = 1 /\ name_arg = ExampleName) => cleaned.text = MyFileSpaced

\* C15 amended: the title holds none of the characters < > : " / \ | ? *,
\* they are deleted with nothing put in their place (for a name without
\* underscore, ampersand or white space the title is the stem with exactly
\* these characters deleted), and "My:File?.html" becomes "MyFile".
C15_ExampleJoined ==
    cleaned.times >= 1 =>
        /\ ~Has(cleaned.text, SpecialChars)
        /\ (cleaned.times = 1 /\ ~Has(name_arg, {"_", "&"} \cup Whitespace)) =>
              cleaned.text = SelectSeq(Stem(name_arg), NotSpecial)
        /\ (cleaned.times = 1 /\ name_arg = ExampleName) => cleaned.text = MyFileJoined

C15_Witness ==
    cleaned.times = 1 /\ name_arg = ExampleName /\ cleaned.text = MyFileJoined

\* C16 as stated: clean_filename applied to a title it returned gives the
\* same title back, for titles with a dot or a decoded entity too.
C16_Idempotent ==
    cleaned.times = 2 => cleaned.text = cleaned.prev

\* C16 amended: clean_filename applied to a title it returned gives the same
\* title back when the title holds no dot, no ampersand and no underscore.
C16_IdempotentOnPlainTitles ==
    (cleaned.times = 2 /\ ~Has(cleaned.prev, {".", "&", "_"})) =>
        cleaned.text = cleaned.prev

\* a title of two words from a name with special characters, cleaned again
C16_Witness ==
    /\ cleaned.times = 2
    /\ cleaned.prev = <<"a", " ", "a">>
    /\ Has(name_arg, SpecialChars)
    /\ cleaned.text = cleaned.prev

\* C18: convert_html_to_markdown returns normally only after one of its
\* remote calls has returned normally; otherwise it ends by raising.
C18_ReturnsOnlyAfterSuccess ==
    \A d \in DOMAIN docs :
        /\ docs[d].st = "returned" => docs[d].succeeded
        /\ docs[d].st = "raised" => ~docs[d].succeeded

RECURSIVE ResultsOfReturned(_)
\* the results of the tasks that returned, from task i on, in discovery order
ResultsOfReturned(i) ==
    IF i > Len(tasks) THEN <<>>
    ELSE (IF tasks[i].st = "returned" THEN <<tasks[i].result>> ELSE <<>>)
             \o ResultsOfReturned(i + 1)

\* C20: after the reordering, ordered_results holds one entry for each file
\* whose task returned, that file's own result, and nothing else: as many
\* entries as tasks that returned, none dropped, none twice.
C20_OneEntryPerSuccess ==
    pc = "write" =>
        /\ Len(ordered_results) = Cardinality(Returned)
        /\ ordered_results = ResultsOfReturned(1)

\* C19: with max_concurrent >= 1, a run that has its files and a confirmed
\* output target comes to write the output: every task gets the semaphore
\* and ends, and the permit is back after a task that returned and after a
\* task that raised, so that all permits are free when the output is written.
C19_ReachesWrite ==
    /\ (pc = "dispatch" /\ max_concurrent >= 1) ~> (pc = "write")
    /\ [](pc = "write" =>
            /\ semaphore = max_concurrent
            /\ \A i \in DOMAIN tasks : tasks[i].st \in {"returned", "raised"})

\* the output is about to be written after a task that raised and one that returned
C19_Witness ==
    /\ pc = "write"
    /\ max_concurrent = 1
    /\ Raised # {}
    /\ Returned # {}
    /\ semaphore = max_concurrent

====
